---- MODULE Spec2Model ----
(***************************************************************************)
(* Bounce/render state machine of snowflake-bounce (src/src/lib.rs).       *)
(* The state is the Bouncer struct; there is one action per public method. *)
(* A panic (unwrap on a failed conversion, overflow trap of a debug build) *)
(* ends the process: status becomes "panicked" and nothing runs after it.  *)
(* last records the operation that produced the current state; fuel is    *)
(* the number of operations the run may still take (SpecEdge bounds it).   *)
(***************************************************************************)
EXTENDS Integers, Sequences, FiniteSets

VARIABLES status, x, y, prev_x, prev_y, dx, dy, color, max_x, max_y, mode, last,
          fuel, surface

vars == <<status, x, y, prev_x, prev_y, dx, dy, color, max_x, max_y, mode, last,
          fuel, surface>>

----------------------------------------------------------------------------
(* Integer types *)

U16Max == 65535
\* the largest cursor coordinate draw() hands to the terminal (max.min(65534))
CursorMax == 65534
I32Max == 2147483647
I32Min == -I32Max - 1

InU16(v) == 0 <= v /\ v <= U16Max

Max(a, b) == IF a >= b THEN a ELSE b
Min(a, b) == IF a <= b THEN a ELSE b

\* SatSub1 as a wrapping subtraction
SatSub1_Wrap(v) == IF v = 0 THEN U16Max ELSE v - 1

\* u16::saturating_sub(1)
SatSub1(v) == IF v = 0 THEN 0 ELSE v - 1

\* i32 remainder: truncated, the sign of the dividend (b > 0). Written so that
\* no intermediate value leaves the i32 range, also for a = i32::MIN.
RemI32(a, b) ==
    IF a >= 0 THEN a % b
    ELSE -(((((-(a + 1)) % b) + 1) % b))

\* i32::abs. For i32::MIN the result depends on the build: Rust traps the
\* overflow when overflow checks are on (debug), and wraps to i32::MIN
\* otherwise (release).
AbsTraps(r, build) == r = I32Min /\ build = "debug"

AbsI32(r) == IF r = I32Min THEN I32Min ELSE IF r < 0 THEN -r ELSE r

----------------------------------------------------------------------------
(* Symbol modes, palette, geometry *)

Modes == {"SnowflakeSmall", "SnowflakeLarge", "NixOS", "Arch", "MiddleFinger"}

\* the colors array of cycle_color, in order
Colors == <<"Green", "Blue", "White", "Yellow", "Cyan", "Magenta", "Red">>

get_logo_dimensions(m) ==
    CASE m = "SnowflakeSmall" -> <<1, 1>>
      [] m = "SnowflakeLarge" -> <<5, 3>>
      [] m = "NixOS"          -> <<46, 19>>
      [] m = "MiddleFinger"   -> <<2, 1>>
      [] m = "Arch"           -> <<46, 19>>

\* a row of r columns repeated n times
Rows(n, r) == [i \in 1 .. n |-> r]

\* get_logo_lines, each text row given by the number of display columns it
\* occupies: one per character, two for the wide gesture glyph
get_logo_lines(m) ==
    CASE m = "SnowflakeSmall" -> <<1>>
      [] m = "SnowflakeLarge" -> <<5, 5, 5>>
      [] m = "NixOS"          -> Rows(19, 45)
      [] m = "MiddleFinger"   -> <<2>>
      [] m = "Arch"           -> Rows(19, 46)

LogoW(m) == get_logo_dimensions(m)[1]
LogoH(m) == get_logo_dimensions(m)[2]

\* NextSymbol with the Arch logo made part of the cycle, after NixOS
NextSymbol_ViaArch(m) ==
    CASE m = "SnowflakeSmall" -> "SnowflakeLarge"
      [] m = "SnowflakeLarge" -> "NixOS"
      [] m = "NixOS"          -> "Arch"
      [] m = "MiddleFinger"   -> "SnowflakeSmall"
      [] m = "Arch"           -> "SnowflakeSmall"

\* NextSymbol with the gesture sent on to the large snowflake
NextSymbol_GestureOn(m) ==
    CASE m = "SnowflakeSmall" -> "SnowflakeLarge"
      [] m = "SnowflakeLarge" -> "NixOS"
      [] m = "NixOS"          -> "SnowflakeSmall"
      [] m = "MiddleFinger"   -> "SnowflakeLarge"
      [] m = "Arch"           -> "NixOS"

NextSymbol(m) ==
    CASE m = "SnowflakeSmall" -> "SnowflakeLarge"
      [] m = "SnowflakeLarge" -> "NixOS"
      [] m = "NixOS"          -> "SnowflakeSmall"
      [] m = "MiddleFinger"   -> "SnowflakeSmall"
      [] m = "Arch"           -> "NixOS"

\* PickColor reading the entry after the one drawn
PickColor_Shift(r) == Colors[((r + 1) % Len(Colors)) + 1]

\* colors[rng::<usize>() % colors.len()]
PickColor(r) == Colors[(r % Len(Colors)) + 1]

----------------------------------------------------------------------------
(* Bounds of the model *)

\* color draws are 0..MaxDraw (reduced modulo the palette length by PickColor)
MaxDraw == 1
\* non-negative position draws of new() are 0..MaxRand
MaxRand == 4

ColorDraws == 0 .. MaxDraw

\* values of rng::<i32>() tried by new(): small ones and both ends of i32
RandI32 == (0 .. MaxRand) \cup {-1, -3, I32Max, I32Min + 1, I32Min}

Builds == {"debug", "release"}

\* operations of a run of SpecEdge
MaxSteps == 5

\* terminal sizes (cols, rows) of Spec: no glyph fits; the large snowflake
\* fills the terminal and the logos do not fit; every glyph fits with room
Sizes == {<<0, 0>>, <<6, 4>>, <<51, 26>>}

\* terminal sizes tried by construction alone (80x24 is the fallback size)
NewSizes == Sizes \cup
            {<<80, 24>>, <<1, 1>>, <<40, 15>>, <<100, 40>>, <<U16Max, U16Max>>}

\* the extreme terminal sizes, and the draws of new(), of SpecEdge
EdgeSizes == Sizes \cup {<<U16Max, U16Max>>}
EdgeRand == {0, I32Max}

----------------------------------------------------------------------------
(* History: the operation that produced the current state *)

NoHit == "none"

\* op: the operation; a, b: its (cols, rows) argument, 0 when it has none;
\* bx, by: the collision branch update took on each axis; was: the color held
\* before the operation; r: the last color draw the operation made, 0 if none;
\* from: the mode cycle_symbol was called in, "" for the other operations;
\* wiped: the number of glyph cells the erase step of a draw on the terminal
\* blanked, 0 for the other operations
Did(op, a, b, bx, by, was, r) ==
    [op |-> op, a |-> a, b |-> b, bx |-> bx, by |-> by, was |-> was, r |-> r,
     from |-> IF op = "cycle_symbol" THEN mode ELSE "", wiped |-> 0]

Quiet(op) == Did(op, 0, 0, NoHit, NoHit, color, 0)

\* a run that is not bounded has fuel Unlimited
Unlimited == 0 - 1

\* every operation spends one unit of fuel, when the run is bounded
Spend == fuel # 0 /\ fuel' = (IF fuel > 0 THEN fuel - 1 ELSE fuel)

----------------------------------------------------------------------------
(* Bouncer::new *)

\* rng::<i32>().abs() % (i32::from(max) - pad).max(5) + 2
StartCoord(r, max, pad) == RemI32(AbsI32(r), Max(max - pad, 5)) + 2

\* u16::try_from(v).unwrap() panics exactly when v is outside u16
UnwrapFails(v) == ~InU16(v)

\* new() panics: abs traps, or a start coordinate does not fit u16
NewPanics(mx, my, rx, ry, build) ==
    \/ AbsTraps(rx, build)
    \/ AbsTraps(ry, build)
    \/ UnwrapFails(StartCoord(rx, mx, 50))
    \/ UnwrapFails(StartCoord(ry, my, 25))

Unborn ==
    /\ status = "unborn"
    /\ x = 0 /\ y = 0 /\ prev_x = 0 /\ prev_y = 0
    /\ dx = 0 /\ dy = 0
    /\ color = "Blue"
    /\ max_x = 0 /\ max_y = 0
    /\ mode = "NixOS"
    /\ last = Did("init", 0, 0, NoHit, NoHit, "Blue", 0)
    /\ surface = {}

Init == Unborn /\ fuel = Unlimited

New(cols, rows, rx, ry, bx, by, build) ==
    /\ status = "unborn"
    /\ Spend
    /\ UNCHANGED surface
    /\ LET mx == SatSub1(cols)
           my == SatSub1(rows)
           sx == StartCoord(rx, mx, 50)
           sy == StartCoord(ry, my, 25)
       IN  IF NewPanics(mx, my, rx, ry, build)
           THEN /\ status' = "panicked"
                /\ last' = Did("new", cols, rows, NoHit, NoHit, color, 0)
                /\ UNCHANGED <<x, y, prev_x, prev_y, dx, dy, color, max_x, max_y, mode>>
           ELSE /\ status' = "running"
                /\ x' = sx /\ y' = sy
                /\ prev_x' = sx /\ prev_y' = sy
                /\ dx' = (IF bx THEN 1 ELSE -1)
                /\ dy' = (IF by THEN 1 ELSE -1)
                /\ color' = "Blue"
                /\ max_x' = mx /\ max_y' = my
                /\ mode' = "NixOS"
                /\ last' = Did("new", cols, rows, NoHit, NoHit, color, 0)

----------------------------------------------------------------------------
(* Mode and color mutators *)

\* CycleSymbol pulling the position back inside the bounds for the new mode
CycleSymbol_Reclamp ==
    /\ status = "running"
    /\ Spend
    /\ UNCHANGED surface
    /\ mode' = NextSymbol(mode)
    /\ x' = IF x + LogoW(mode') >= max_x
               THEN Max(max_x - LogoW(mode'), 0) ELSE x
    /\ y' = IF y + LogoH(mode') >= max_y
               THEN Max(max_y - LogoH(mode'), 0) ELSE y
    /\ last' = Quiet("cycle_symbol")
    /\ UNCHANGED <<status, prev_x, prev_y, dx, dy, color, max_x, max_y>>

CycleSymbol ==
    /\ status = "running"
    /\ Spend
    /\ UNCHANGED surface
    /\ mode' = NextSymbol(mode)
    /\ last' = Quiet("cycle_symbol")
    /\ UNCHANGED <<status, x, y, prev_x, prev_y, dx, dy, color, max_x, max_y>>

SetMiddleFinger ==
    /\ status = "running"
    /\ Spend
    /\ UNCHANGED surface
    /\ mode' = "MiddleFinger"
    /\ last' = Quiet("set_middle_finger")
    /\ UNCHANGED <<status, x, y, prev_x, prev_y, dx, dy, color, max_x, max_y>>

SetArch ==
    /\ status = "running"
    /\ Spend
    /\ UNCHANGED surface
    /\ mode' = "Arch"
    /\ last' = Quiet("set_arch")
    /\ UNCHANGED <<status, x, y, prev_x, prev_y, dx, dy, color, max_x, max_y>>

CycleColor(r) ==
    /\ status = "running"
    /\ Spend
    /\ UNCHANGED surface
    /\ color' = PickColor(r)
    /\ last' = Did("cycle_color", 0, 0, NoHit, NoHit, color, r)
    /\ UNCHANGED <<status, x, y, prev_x, prev_y, dx, dy, max_x, max_y, mode>>

----------------------------------------------------------------------------
(* Bouncer::update *)

\* BounceAxis with the far edge clamped to max, the glyph's size forgotten
BounceAxis_NoSize(c, d, size, max) ==
    LET n == c + d
    IN  IF n <= 0
        THEN [n |-> 0, d |-> -d, hit |-> "near"]
        ELSE IF n + size >= max
             THEN [n |-> max, d |-> -d, hit |-> "far"]
             ELSE [n |-> n, d |-> d, hit |-> NoHit]

\* BounceAxis with the far edge tested by > instead of >=
BounceAxis_StrictFar(c, d, size, max) ==
    LET n == c + d
    IN  IF n <= 0
        THEN [n |-> 0, d |-> -d, hit |-> "near"]
        ELSE IF n + size > max
             THEN [n |-> max - size, d |-> -d, hit |-> "far"]
             ELSE [n |-> n, d |-> d, hit |-> NoHit]

\* BounceAxis with the far-edge reversal written as d - 2 (right for d = 1 only)
BounceAxis_Decrement(c, d, size, max) ==
    LET n == c + d
    IN  IF n <= 0
        THEN [n |-> 0, d |-> -d, hit |-> "near"]
        ELSE IF n + size >= max
             THEN [n |-> max - size, d |-> d - 2, hit |-> "far"]
             ELSE [n |-> n, d |-> d, hit |-> NoHit]

\* BounceAxis turning at the far edge without pulling the candidate back
BounceAxis_FarUnclamped(c, d, size, max) ==
    LET n == c + d
    IN  IF n <= 0
        THEN [n |-> 0, d |-> -d, hit |-> "near"]
        ELSE IF n + size >= max
             THEN [n |-> n, d |-> -d, hit |-> "far"]
             ELSE [n |-> n, d |-> d, hit |-> NoHit]

\* BounceAxis clamping at the near edge without turning
BounceAxis_NearKeeps(c, d, size, max) ==
    LET n == c + d
    IN  IF n <= 0
        THEN [n |-> 0, d |-> d, hit |-> "near"]
        ELSE IF n + size >= max
             THEN [n |-> max - size, d |-> -d, hit |-> "far"]
             ELSE [n |-> n, d |-> d, hit |-> NoHit]

\* BounceAxis clamping at the far edge without turning
BounceAxis_FarKeeps(c, d, size, max) ==
    LET n == c + d
    IN  IF n <= 0
        THEN [n |-> 0, d |-> -d, hit |-> "near"]
        ELSE IF n + size >= max
             THEN [n |-> max - size, d |-> d, hit |-> "far"]
             ELSE [n |-> n, d |-> d, hit |-> NoHit]

\* one axis of update: candidate n = c + d, then the two collision branches
BounceAxis(c, d, size, max) ==
    LET n == c + d
    IN  IF n <= 0
        THEN [n |-> 0, d |-> -d, hit |-> "near"]
        ELSE IF n + size >= max
             THEN [n |-> max - size, d |-> -d, hit |-> "far"]
             ELSE [n |-> n, d |-> d, hit |-> NoHit]

\* u16::try_from(n).unwrap_or(u16::MAX)
CommitU16(n) == IF InU16(n) THEN n ELSE U16Max

Update(r1, r2) ==
    /\ status = "running"
    /\ Spend
    /\ UNCHANGED surface
    /\ LET bx == BounceAxis(x, dx, LogoW(mode), max_x)
           by == BounceAxis(y, dy, LogoH(mode), max_y)
           c1 == IF bx.hit # NoHit THEN PickColor(r1) ELSE color
           c2 == IF by.hit # NoHit THEN PickColor(r2) ELSE c1
       IN  /\ prev_x' = x /\ prev_y' = y
           /\ dx' = bx.d /\ dy' = by.d
           /\ color' = c2
           /\ x' = CommitU16(bx.n)
           /\ y' = CommitU16(by.n)
           /\ last' = Did("update", 0, 0, bx.hit, by.hit, color,
                          IF by.hit # NoHit THEN r2
                          ELSE IF bx.hit # NoHit THEN r1 ELSE 0)
    /\ UNCHANGED <<status, max_x, max_y, mode>>

----------------------------------------------------------------------------
(* Bouncer::resize *)

\* ClampTarget without the .max(0)
ClampTarget_NoFloor(max, size) == max - size

\* i32::from(max).saturating_sub(size).max(0), before the conversion to u16
ClampTarget(max, size) == Max(max - size, 0)

\* ResizeCoord with the glyph's size left out of the test
ResizeCoord_NoSize(c, size, max) ==
    IF c >= max THEN ClampTarget(max, size) ELSE c

\* one coordinate of resize
ResizeCoord(c, size, max) ==
    IF c + size >= max THEN ClampTarget(max, size) ELSE c

\* the unwrap of one coordinate's conversion fails
ResizeFails(c, size, max) ==
    c + size >= max /\ UnwrapFails(ClampTarget(max, size))

Resize(w, h) ==
    /\ status = "running"
    /\ Spend
    /\ UNCHANGED surface
    /\ LET mx == SatSub1(w)
           my == SatSub1(h)
           nx == ResizeCoord(x, LogoW(mode), mx)
           ny == ResizeCoord(y, LogoH(mode), my)
           px == ResizeCoord(prev_x, LogoW(mode), mx)
           py == ResizeCoord(prev_y, LogoH(mode), my)
       IN  /\ max_x' = mx /\ max_y' = my
           /\ last' = Did("resize", w, h, NoHit, NoHit, color, 0)
           /\ IF \/ ResizeFails(x, LogoW(mode), mx)
                 \/ ResizeFails(y, LogoH(mode), my)
                 \/ ResizeFails(prev_x, LogoW(mode), mx)
                 \/ ResizeFails(prev_y, LogoH(mode), my)
              THEN /\ status' = "panicked"
                   /\ UNCHANGED <<x, y, prev_x, prev_y>>
              ELSE /\ status' = status
                   /\ x' = nx /\ y' = ny /\ prev_x' = px /\ prev_y' = py
    /\ UNCHANGED <<dx, dy, color, mode>>

----------------------------------------------------------------------------
(* Bouncer::draw *)

\* the offsets i of 0..n-1 whose row base + i is emitted: checked_add gives a
\* row, and the row is below max_y.min(65534)
EmittedRows(base, n, my) ==
    {i \in 0 .. (n - 1) : base + i <= U16Max /\ base + i < Min(my, CursorMax)}

\* the column of cursor::MoveTo: c.min(max_x.min(65534))
CursorCol(c, mx) == Min(c, Min(mx, CursorMax))

\* EraseCells taken at the current position, not the previous one
EraseCells_AtCurrent ==
    {<<CursorCol(x, max_x) + k, y + i>> :
        k \in 0 .. (LogoW(mode) - 1),
        i \in EmittedRows(y, LogoH(mode), max_y)}

\* the cells blanked by the erase step: logo_width blanks from the cursor on
EraseCells ==
    {<<CursorCol(prev_x, max_x) + k, prev_y + i>> :
        k \in 0 .. (LogoW(mode) - 1),
        i \in EmittedRows(prev_y, LogoH(mode), max_y)}

\* the cells written by the draw step: each emitted row of the glyph
DrawCells ==
    UNION {{<<CursorCol(x, max_x) + k, y + i>> :
               k \in 0 .. (get_logo_lines(mode)[i + 1] - 1)} :
           i \in EmittedRows(y, Len(get_logo_lines(mode)), max_y)}

\* the unwraps of draw: both dimensions and every row index must fit u16
DrawPanics ==
    \/ UnwrapFails(LogoW(mode))
    \/ UnwrapFails(LogoH(mode))
    \/ \E i \in 0 .. (Len(get_logo_lines(mode)) - 1) : UnwrapFails(i)

\* draw takes &self: it writes to the sink and leaves the Bouncer as it is.
\* Here the sink is a writer other than the terminal whose surface is kept.
Draw ==
    /\ status = "running"
    /\ Spend
    /\ UNCHANGED surface
    /\ status' = (IF DrawPanics THEN "panicked" ELSE status)
    /\ last' = Quiet("draw")
    /\ UNCHANGED <<x, y, prev_x, prev_y, dx, dy, color, max_x, max_y, mode>>

\* what a draw leaves of glyph characters on a surface holding the cells s:
\* the erase step blanks its cells, then the draw step writes the glyph
Paint(s) == (s \ EraseCells) \cup DrawCells

\* draw with the terminal as its sink. surface is the set of cells that hold a
\* glyph character, each cell addressed <<column, row>> as the cursor counts
\* them from the start column of its row.
DrawTerminal ==
    /\ status = "running"
    /\ Spend
    /\ status' = (IF DrawPanics THEN "panicked" ELSE status)
    /\ surface' = (IF DrawPanics THEN surface ELSE Paint(surface))
    /\ last' = [Quiet("draw") EXCEPT
                    !.wiped = Cardinality(surface \cap EraseCells)]
    /\ UNCHANGED <<x, y, prev_x, prev_y, dx, dy, color, max_x, max_y, mode>>

----------------------------------------------------------------------------
(* Specifications *)

\* a collision branch fires on the axis; only then does update draw a color
Hits(c, d, size, max) == BounceAxis(c, d, size, max).hit # NoHit

DrawsIf(b) == IF b THEN ColorDraws ELSE {0}

Construct ==
    /\ status = "unborn"
    /\ \E s \in Sizes, rx \in RandI32, ry \in RandI32,
                bx \in BOOLEAN, by \in BOOLEAN, b \in Builds :
                New(s[1], s[2], rx, ry, bx, by, b)

Tick == \E r1 \in DrawsIf(Hits(x, dx, LogoW(mode), max_x)),
           r2 \in DrawsIf(Hits(y, dy, LogoH(mode), max_y)) : Update(r1, r2)

OnResize == \E s \in Sizes : Resize(s[1], s[2])

OnColorKey == \E r \in ColorDraws : CycleColor(r)

\* the machine on the terminals of Sizes, runs of any length
Next ==
    \/ Construct
    \/ Tick
    \/ OnResize
    \/ CycleSymbol
    \/ SetMiddleFinger
    \/ SetArch
    \/ OnColorKey
    \/ Draw

Spec == Init /\ [][Next]_vars

\* construction alone, on more terminal sizes
ConstructAny ==
    /\ status = "unborn"
    /\ \E s \in NewSizes, rx \in RandI32, ry \in RandI32,
                   bx \in BOOLEAN, by \in BOOLEAN, b \in Builds :
                   New(s[1], s[2], rx, ry, bx, by, b)

SpecNew == Init /\ [][ConstructAny]_vars

\* the machine on the smallest and the largest terminal, runs of at most
\* MaxSteps operations
ConstructEdge ==
    /\ status = "unborn"
    /\ \E s \in EdgeSizes, rx \in EdgeRand, ry \in EdgeRand,
                    bx \in BOOLEAN, by \in BOOLEAN, b \in Builds :
                    New(s[1], s[2], rx, ry, bx, by, b)

OnResizeEdge == \E s \in EdgeSizes : Resize(s[1], s[2])

InitEdge == Unborn /\ fuel = MaxSteps

NextEdge ==
    \/ ConstructEdge
    \/ Tick
    \/ OnResizeEdge
    \/ CycleSymbol
    \/ SetMiddleFinger
    \/ SetArch
    \/ OnColorKey
    \/ Draw

SpecEdge == InitEdge /\ [][NextEdge]_vars

\* The tick loop: at most one key, then update, then draw on the terminal.
\* The last operation tells where the loop stands.
MaxLoopOps == 6

ModeOps == {"cycle_symbol", "set_middle_finger", "set_arch"}

\* the top of the loop: after construction, or after the draw of a tick
AtTop == last.op \in {"new", "draw"}

LoopCycle == AtTop /\ CycleSymbol

LoopGesture == AtTop /\ SetMiddleFinger

LoopArch == AtTop /\ SetArch

LoopColor == AtTop /\ OnColorKey

LoopUpdate == last.op \in {"new", "draw", "cycle_color"} \cup ModeOps /\ Tick

LoopDraw == last.op = "update" /\ DrawTerminal

\* ticks with a mode key, runs of at most MaxLoopOps operations
InitLoop == Unborn /\ fuel = MaxLoopOps

NextLoop ==
    \/ Construct
    \/ LoopCycle
    \/ LoopGesture
    \/ LoopArch
    \/ LoopUpdate
    \/ LoopDraw

SpecLoop == InitLoop /\ [][NextLoop]_vars

\* the loop with the mode chosen before its first tick and the terminal never
\* resized: from the first update on, the mode and the bounds stay
BeforeLoop == last.op \in {"new"} \cup ModeOps

SetupCycle == BeforeLoop /\ CycleSymbol

SetupGesture == BeforeLoop /\ SetMiddleFinger

SetupArch == BeforeLoop /\ SetArch

NextSteady ==
    \/ Construct
    \/ SetupCycle
    \/ SetupGesture
    \/ SetupArch
    \/ LoopColor
    \/ LoopUpdate
    \/ LoopDraw

SpecSteady == Init /\ [][NextSteady]_vars

\* updates alone, with the mode chosen before the first of them and the
\* terminal never resized. The loop calls update in every iteration, so an
\* update that stays possible is eventually made.
NextBounce ==
    \/ Construct
    \/ SetupCycle
    \/ SetupGesture
    \/ SetupArch
    \/ Tick

SpecBounce == Init /\ [][NextBounce]_vars /\ WF_vars(Tick)

----------------------------------------------------------------------------
(* Properties *)

\* the current mode's glyph fits the bounds
Fits == LogoW(mode) <= max_x /\ LogoH(mode) <= max_y

\* the bounding box of the current mode at (cx, cy) lies inside the bounds
Contained(cx, cy) ==
    /\ 0 <= cx /\ cx + LogoW(mode) <= max_x
    /\ 0 <= cy /\ cy + LogoH(mode) <= max_y

Running(op) == status = "running" /\ last.op = op

\* C1 as stated: after every update, whatever the mode and the terminal size,
\* the bounding box is inside the bounds.
C1_ContainedAfterUpdate == Running("update") => Contained(x, y)

\* C1 amended: after every update made while the current mode's glyph fits
\* the bounds (w <= max_x and h <= max_y), the bounding box is inside the
\* bounds.
C1_ContainedAfterUpdateIfFits == (Running("update") /\ Fits) => Contained(x, y)

\* the logo, on a terminal it fits, has just bounced off the right edge
C1_Witness ==
    /\ Running("update") /\ Fits
    /\ mode = "NixOS" /\ last.bx = "far" /\ x = max_x - 46

\* C2: after resize(cols, rows) with cols >= w + 1 and rows >= h + 1, both
\* position and previous_position are inside the new bounds.
C2_ContainedAfterResize ==
    (/\ Running("resize")
     /\ last.a >= LogoW(mode) + 1
     /\ last.b >= LogoH(mode) + 1)
    => (Contained(x, y) /\ Contained(prev_x, prev_y))

\* a resize to 51x26 has moved the logo to column 4 while previous_position
\* stayed at column 0: the position came from the clamp, not from a tick
C2_Witness ==
    /\ Running("resize") /\ last.a = 51 /\ last.b = 26
    /\ mode = "NixOS" /\ x = 4 /\ prev_x = 0

\* the rule of update on one axis, from (c, d) to (c2, d2)
AxisRule(c, d, c2, d2, size, max) ==
    LET n == c + d
    IN  IF n <= 0 THEN c2 = 0 /\ d2 = -d
        ELSE IF n + size >= max THEN c2 = max - size /\ d2 = -d
        ELSE c2 = n /\ d2 = d

\* no collision branch fires on the axis
Free(c, d, size, max) == c + d > 0 /\ c + d + size < max

\* C3: when the glyph fits, update sets previous_position to the old
\* position, moves each axis by the collision rule (a function of position,
\* velocity, mode and bounds alone), and leaves the color alone when no
\* branch fires; the logo at (10,5) moving (1,1) in bounds (50,25) ends at
\* x = 4 with dx = -1.
C3_UpdateRule ==
    [][(status = "running" /\ last'.op = "update" /\ Fits) =>
        /\ prev_x' = x /\ prev_y' = y
        /\ AxisRule(x, dx, x', dx', LogoW(mode), max_x)
        /\ AxisRule(y, dy, y', dy', LogoH(mode), max_y)
        /\ (Free(x, dx, LogoW(mode), max_x) /\ Free(y, dy, LogoH(mode), max_y))
              => color' = color
        /\ (mode = "NixOS" /\ max_x = 50 /\ max_y = 25 /\ x = 10 /\ y = 5
              /\ dx = 1 /\ dy = 1) => (x' = 4 /\ dx' = -1)
      ]_vars

\* the state after the update of C3's instance
C3_Witness ==
    /\ Running("update")
    /\ mode = "NixOS" /\ max_x = 50 /\ max_y = 25
    /\ prev_x = 10 /\ prev_y = 5 /\ last.bx = "far"
    /\ x = 4 /\ dx = -1

\* update took a collision branch on at least one axis
Collided == last.bx # NoHit \/ last.by # NoHit

\* C4 as stated: every update in which a collision branch fires ends with a
\* color different from the color held before it.
C4_RecolorOnCollision == (Running("update") /\ Collided) => color # last.was

\* C4 amended: every update in which a collision branch fires ends with the
\* palette color selected by the last random draw r of that update,
\* colors[r mod 7], whatever the color held before - so the color changes
\* unless the draw selects the color already held. The small snowflake at
\* x = 79 moving right in bounds 79 ends at x = 78 with dx = -1.
C4_ColorDrawnOnCollision ==
    (Running("update") /\ Collided) =>
        /\ color = Colors[(last.r % Len(Colors)) + 1]
        /\ BounceAxis(79, 1, LogoW("SnowflakeSmall"), 79).n = 78
        /\ BounceAxis(79, 1, LogoW("SnowflakeSmall"), 79).d = -1

\* a collision whose draw selected the color already held
C4_Witness == Running("update") /\ Collided /\ color = last.was

\* C5 as stated: new() on an 80x24 terminal gives bounds (79,23), mode NixOS
\* and a start position whose 46x19 box is inside the bounds.
C5_NewOn80x24 ==
    (Running("new") /\ last.a = 80 /\ last.b = 24) =>
        /\ max_x = 79 /\ max_y = 23 /\ mode = "NixOS"
        /\ 0 <= x /\ x + 46 <= 79
        /\ 0 <= y /\ y + 19 <= 23

\* the rule of resize on one coordinate
ClampRule(c, size, max) == IF c + size >= max THEN Max(max - size, 0) ELSE c

\* C6: resize sets the bounds to (cols - 1, rows - 1) saturating at 0,
\* replaces each of x, prev_x (with w, max_x) and y, prev_y (with h, max_y)
\* by max(max - size, 0) exactly when coordinate + size >= max, and leaves
\* velocity, color and mode alone; the logo at x = 50 resized to 40 columns
\* gets bounds 39 and x = 0.
C6_ResizeRule ==
    [][(status = "running" /\ last'.op = "resize") =>
        /\ max_x' = (IF last'.a = 0 THEN 0 ELSE last'.a - 1)
        /\ max_y' = (IF last'.b = 0 THEN 0 ELSE last'.b - 1)
        /\ x' = ClampRule(x, LogoW(mode), max_x')
        /\ prev_x' = ClampRule(prev_x, LogoW(mode), max_x')
        /\ y' = ClampRule(y, LogoH(mode), max_y')
        /\ prev_y' = ClampRule(prev_y, LogoH(mode), max_y')
        /\ dx' = dx /\ dy' = dy /\ color' = color /\ mode' = mode
        /\ SatSub1(40) = 39 /\ SatSub1(15) = 14
        /\ ResizeCoord(50, LogoW("NixOS"), SatSub1(40)) = 0
      ]_vars

\* a resize to 6x4 has clamped the logo, larger than the terminal, to (0,0),
\* position and previous_position alike
C6_Witness ==
    /\ Running("resize") /\ last.a = 6 /\ last.b = 4
    /\ mode = "NixOS" /\ max_x = 5 /\ max_y = 3
    /\ x = 0 /\ prev_x = 0 /\ y = 0 /\ prev_y = 0

\* C7 as stated: when max - size is negative on an axis and update's far-edge
\* branch fires on it, the coordinate update commits is 0.
C7_FarClampToZero ==
    Running("update") =>
        /\ (last.bx = "far" /\ max_x - LogoW(mode) < 0) => x = 0
        /\ (last.by = "far" /\ max_y - LogoH(mode) < 0) => y = 0

\* C8 as stated: new() never panics, whatever the terminal size and the
\* values of the random source.
C8_NewNeverPanics == last.op = "new" => status # "panicked"

\* C9: update, resize and draw never panic, on terminals from 0x0 to
\* 65535x65535, glyph fitting or not.
C9_NoPanicInTick ==
    last.op \in {"update", "resize", "draw"} => status # "panicked"

\* draw has run with both positions at u16::MAX, where update had put them
\* from a position already at u16::MAX (candidate 65536 or 65534)
C9_Witness ==
    /\ Running("draw")
    /\ prev_x = U16Max /\ prev_y = U16Max /\ x = U16Max /\ y = U16Max

\* C10: in every state from new() on, dx and dy are each +1 or -1.
C10_UnitVelocity ==
    status = "running" => (dx \in {-1, 1} /\ dy \in {-1, 1})

\* a tick has bounced off the right edge and off the top edge at once
C10_Witness ==
    /\ Running("update")
    /\ last.bx = "far" /\ dx = -1
    /\ last.by = "near" /\ dy = 1

Selectable == {"SnowflakeSmall", "SnowflakeLarge", "NixOS"}

\* C11: cycle_symbol takes SnowflakeSmall to SnowflakeLarge, SnowflakeLarge
\* to NixOS and NixOS to SnowflakeSmall, so three calls in a row from any of
\* the three come back to the start; it never gives Arch or MiddleFinger.
C11_CycleOrder ==
    [][(status = "running" /\ last'.op = "cycle_symbol") =>
        /\ mode = "SnowflakeSmall" => mode' = "SnowflakeLarge"
        /\ mode = "SnowflakeLarge" => mode' = "NixOS"
        /\ mode = "NixOS" => mode' = "SnowflakeSmall"
        /\ mode' \notin {"Arch", "MiddleFinger"}
        /\ mode \in Selectable =>
              NextSymbol(NextSymbol(mode')) = mode
      ]_vars

\* cycle_symbol has closed the cycle: called on the logo, it gave the small
\* snowflake
C11_Witness ==
    /\ Running("cycle_symbol")
    /\ last.from = "NixOS" /\ mode = "SnowflakeSmall"

\* C12 as stated: called in a mode an explicit setter has entered
\* (MiddleFinger, Arch), cycle_symbol gives SnowflakeSmall.
C12_SpecialToSmall ==
    [][(status = "running" /\ last'.op = "cycle_symbol"
          /\ mode \in {"MiddleFinger", "Arch"})
         => mode' = "SnowflakeSmall"]_vars

\* C12 amended: called in MiddleFinger, cycle_symbol gives SnowflakeSmall;
\* called in Arch, it gives NixOS. Neither special mode comes back without its
\* setter.
C12_SpecialExcursion ==
    [][(status = "running" /\ last'.op = "cycle_symbol") =>
        /\ mode = "MiddleFinger" => mode' = "SnowflakeSmall"
        /\ mode = "Arch" => mode' = "NixOS"
        /\ mode' \notin {"MiddleFinger", "Arch"}
      ]_vars

\* cycle_symbol, called on the Arch logo, has given the NixOS logo
C12_Witness ==
    /\ Running("cycle_symbol")
    /\ last.from = "Arch" /\ mode = "NixOS"

\* C14: cycle_symbol, set_middle_finger and set_arch change only mode and
\* cycle_color changes only color: position, previous position, velocity and
\* bounds stay as they were. update, draw, the mode operations and
\* cycle_color leave the bounds unchanged.
C14_Frame ==
    [][status = "running" =>
        /\ last'.op \in ModeOps =>
              UNCHANGED <<x, y, prev_x, prev_y, dx, dy, max_x, max_y, color>>
        /\ last'.op = "cycle_color" =>
              UNCHANGED <<x, y, prev_x, prev_y, dx, dy, max_x, max_y, mode>>
        /\ last'.op \in ModeOps \cup {"cycle_color", "update", "draw"} =>
              UNCHANGED <<max_x, max_y>>
      ]_vars

\* cycle_symbol has switched to the logo near the right edge of a terminal
\* the logo fits, and the position was not pulled back
C14_Witness ==
    /\ Running("cycle_symbol")
    /\ last.from = "SnowflakeLarge" /\ mode = "NixOS"
    /\ Fits /\ x + LogoW(mode) > max_x

\* C15: the rows get_logo_lines returns for the mode are as many as the
\* height get_logo_dimensions returns, and each row takes exactly the width
\* get_logo_dimensions returns, in display columns.
C15_TableConsistent ==
    status = "running" =>
        LET lines == get_logo_lines(mode)
        IN  /\ Len(lines) = get_logo_dimensions(mode)[2]
            /\ \A i \in 1 .. Len(lines) :
                  lines[i] = get_logo_dimensions(mode)[1]

\* C18: one update made in a state where the glyph fits the bounds, wherever
\* the position was before (inside the bounds or past the far limit), ends
\* with 0 <= x, x + w <= max_x, 0 <= y and y + h <= max_y.
C18_UpdateRestores ==
    [][(status = "running" /\ last'.op = "update"
          /\ LogoW(mode) <= max_x /\ LogoH(mode) <= max_y)
         => /\ 0 <= x' /\ x' + LogoW(mode) <= max_x
            /\ 0 <= y' /\ y' + LogoH(mode) <= max_y
      ]_vars

\* an update has brought the logo back from a position past the far limit of
\* a terminal it fits
C18_Witness ==
    /\ Running("update") /\ Fits
    /\ mode = "NixOS"
    /\ prev_x + 46 > max_x \/ prev_y + 19 > max_y
    /\ Contained(x, y)

\* C19 as stated: after an update whose far-edge branch fired on an axis the
\* velocity on that axis is -1, and after one whose near-edge branch fired it
\* is 1.
C19_BounceAway ==
    Running("update") =>
        /\ last.bx = "far" => dx = -1
        /\ last.bx = "near" => dx = 1
        /\ last.by = "far" => dy = -1
        /\ last.by = "near" => dy = 1

\* C19 amended: after an update whose far-edge branch fired on an axis from a
\* position inside the bounds on that axis (c + size <= max) the velocity on
\* that axis is -1, and after one whose near-edge branch fired it is 1.
C19_BounceAwayFromInside ==
    Running("update") =>
        /\ (last.bx = "far" /\ prev_x + LogoW(mode) <= max_x) => dx = -1
        /\ last.bx = "near" => dx = 1
        /\ (last.by = "far" /\ prev_y + LogoH(mode) <= max_y) => dy = -1
        /\ last.by = "near" => dy = 1

\* the large snowflake, moving right inside the bounds, has turned at the far
\* edge
C19_Witness ==
    /\ Running("update")
    /\ mode = "SnowflakeLarge"
    /\ last.bx = "far" /\ prev_x + 5 <= max_x /\ dx = -1

\* C13: every cell a draw writes, the blanks of its erase step and the glyph
\* columns of its draw step, has its column in 0..max_x and its row in
\* 0..max_y.
C13_DrawInside ==
    Running("draw") =>
        \A c \in EraseCells \cup DrawCells :
            /\ 0 <= c[1] /\ c[1] <= max_x
            /\ 0 <= c[2] /\ c[2] <= max_y

\* C16: in the tick loop with the mode and the bounds unchanged, the erase
\* step of each draw covers every cell that held a glyph character, those the
\* preceding draw wrote, and after the draw the cells holding a glyph
\* character are exactly those of the current glyph at the current position.
C16_SteadyRedraw ==
    [][(status = "running" /\ last'.op = "draw") =>
        /\ surface \subseteq EraseCells
        /\ surface' = DrawCells
      ]_vars

\* a draw of the logo whose erase step has blanked the cells of the draw
\* before it, one position away
C16_Witness ==
    /\ Running("draw")
    /\ mode = "NixOS" /\ Fits
    /\ last.wiped > 0
    /\ prev_x # x /\ prev_y # y
    /\ surface = DrawCells

\* C17: in ticks that may switch the mode, on a terminal of fixed size, after
\* each draw no cell outside the glyph just drawn holds a glyph character of
\* an earlier draw.
C17_NoRemnants == Running("draw") => surface \subseteq DrawCells

\* C20: with the mode and the bounds fixed and the glyph fitting, updates
\* without end collide with each of the four edges again and again: from
\* every state the glyph comes to x = 0, to x = max_x - w, to y = 0 and to
\* y = max_y - h.
C20_KeepsBouncing ==
    /\ (Running("update") /\ Fits) ~> (last.bx = "near" /\ x = 0)
    /\ (Running("update") /\ Fits)
          ~> (last.bx = "far" /\ x = max_x - LogoW(mode))
    /\ (Running("update") /\ Fits) ~> (last.by = "near" /\ y = 0)
    /\ (Running("update") /\ Fits)
          ~> (last.by = "far" /\ y = max_y - LogoH(mode))

\* the large snowflake in the bottom left corner of a terminal it can move
\* in, both collisions made by the same update
C20_Witness ==
    /\ Running("update") /\ Fits
    /\ mode = "SnowflakeLarge" /\ max_x > 5
    /\ last.bx = "near" /\ x = 0
    /\ last.by = "far" /\ y = max_y - 3

====
